---- MODULE Spec2Model ----
(***************************************************************************)
(* Model of the OAuth token lifecycle of spotify-mcp-server (utils.ts):    *)
(* the persisted credential record (spotify-config.json), getAccessToken   *)
(* with its refresh, and the interactive authorization flow with its       *)
(* temporary callback listener.                                            *)
(*                                                                         *)
(* A JavaScript object is a TLA+ function from the keys it holds to their  *)
(* values; a key whose value is `undefined` maps to Undefined.  Every      *)
(* asynchronous function is cut at its `await fetch(...)`: the part before *)
(* the request is one action, the part run when the response arrives is    *)
(* another, and the clock may advance in between.                          *)
(***************************************************************************)
EXTENDS Integers, Sequences, FiniteSets, TLC

(* ------------------------------ bounds -------------------------------- *)

\* Date.now() runs from StartClock to MaxClock in steps of TickMs.
MaxClock == 4000

StartClock == 1000

TickMs == 1000

\* Numbers are counted in steps of 1/Scale: n stands for n / Scale.
Scale == 2

\* The largest volume_percent a device reports.
MaxDeviceVolume == 100

\* Concurrent callers of getAccessToken in the server process.
Procs == {"p1", "p2"}

\* HTTP requests the callback listener can receive during one flow.
Reqs == {"r1", "r2"}

(* --------------------------- JavaScript values ------------------------ *)

Undefined == "<undefined>"

Null == "<null>"

\* JavaScript truthiness of a string-or-undefined-or-null value.
TruthyStr(v) == v # Undefined /\ v # Null /\ v # ""

\* obj.key for a string-valued key (undefined when the key is not there).
Get(obj, k) == IF k \in DOMAIN obj THEN obj[k] ELSE Undefined

\* obj.key = v
Put(obj, k, v) == [x \in DOMAIN obj \cup {k} |-> IF x = k THEN v ELSE obj[x]]

\* JSON.parse(JSON.stringify(obj)): keys whose value is undefined are dropped.
StringKeys == {"clientId", "clientSecret", "redirectUri", "accessToken", "refreshToken"}

Stringify(obj) ==
  LET keep == {k \in DOMAIN obj : ~(k \in StringKeys /\ obj[k] = Undefined)}
  IN  [k \in keep |-> obj[k]]

(* --------------------------- the token endpoint ----------------------- *)

NewTokens == {"t1", "t2"}

NewRefreshTokens == {"r1"}

ExpiresInValues == {0, 1, 2}

DefaultExpiresIn == 3600

\* Bodies of a 200 answer to grant_type=refresh_token.
RefreshData ==
  {[access_token |-> t] : t \in NewTokens}
    \cup {[access_token |-> t, expires_in |-> e] : t \in NewTokens, e \in ExpiresInValues}

\* Bodies of a 200 answer to grant_type=authorization_code; refresh_token is
\* optional in the answer.
ExchangeData ==
  {[access_token |-> t, expires_in |-> e] : t \in NewTokens, e \in {1}}
    \cup {[access_token |-> t, refresh_token |-> r] : t \in NewTokens, r \in NewRefreshTokens}
    \cup {[access_token |-> t, refresh_token |-> r, expires_in |-> e] :
            t \in NewTokens, r \in NewRefreshTokens, e \in {1}}

Responses(bodies) ==
  {[ok |-> FALSE]} \cup {[ok |-> TRUE, data |-> d] : d \in bodies}

\* data.expires_in || 3600
ExpiresInOrDefault(data) ==
  IF "expires_in" \in DOMAIN data /\ data.expires_in # 0
    THEN data.expires_in
    ELSE DefaultExpiresIn

(* ------------------------------ state --------------------------------- *)

VARIABLES
  clock,        \* Date.now()
  file,         \* spotify-config.json: [exists, wellFormed, json]
  cachedAccessToken,
  pc,           \* per caller: "idle", "refreshing", "done"
  cfg,          \* per caller: the record loaded by the current call (`config`)
  now,          \* per caller: the local `now` of getAccessToken
  response,     \* per caller: the local `response` of refreshAccessToken
  refreshReqs,  \* per caller: refresh requests sent by the current call
  saved,        \* per caller: the current call has run saveSpotifyConfig
  outcome,      \* per caller: "none", "returned" or the error thrown
  retval,       \* per caller: the value returned
  authPc,       \* authorizeSpotify: "idle", "pending", "resolved", "rejected",
                \*   "threw" (load failed) or "exited" (process.exit(1))
  authErr,      \* the error authPromise was rejected with, or "none"
  authConfig,   \* the local `config` of authorizeSpotify, shared by its handlers
  authState,    \* the local `state` of authorizeSpotify
  authStart,    \* Date.now() when authorizeSpotify was called
  server,       \* the http.Server: "none", "binding", "listening", "closed", "failed"
  browser,      \* open(authorizationUrl) has been called
  reqPc,        \* per request: "new", "exchanging", "done"
  reqPage,      \* per request: what was written to `res`
  exchangeReqs, \* code-for-token requests sent by this flow
  authSaves,    \* saveSpotifyConfig calls made by this flow
  apiReqs,      \* per caller: resource-API requests sent by the current spotifyFetch
  apiResp,      \* per caller: the local `response` of spotifyFetch
  fetchResult,  \* per caller: what spotifyFetch returned or threw
  pendingWrite, \* a writeFileSync of another process that has truncated the
                \*   file and not yet written: [active, old, new]
  volPc,        \* adjustVolume: "idle", "getting", "putting", "done"
  adjustment,   \* args.adjustment of the current call, in steps of 1/Scale
  playback,     \* what spotifyFetch('/me/player') gave the current call
  volumeReqs,   \* volume_percent of the PUT requests sent by the current call
  volReply      \* which text the handler returned

tmVars == <<cachedAccessToken, pc, cfg, now, response, refreshReqs, saved, outcome, retval>>

authVars == <<authPc, authErr, authConfig, authState, authStart, server, browser,
              reqPc, reqPage, exchangeReqs, authSaves>>

fetchVars == <<apiReqs, apiResp, fetchResult>>

volVars == <<volPc, adjustment, playback, volumeReqs, volReply>>

vars == <<clock, file, tmVars, authVars, fetchVars, volVars, pendingWrite, volVars>>

NoObject == [x \in {} |-> Undefined]

NoResult == [kind |-> "none"]

NoWrite == [active |-> FALSE]

(* --------------------------- CredentialStore -------------------------- *)

RequiredOk(config) ==
  /\ TruthyStr(Get(config, "clientId"))
  /\ TruthyStr(Get(config, "clientSecret"))
  /\ TruthyStr(Get(config, "redirectUri"))

\* Mutant: a missing file is reported as a parse failure.
LoadError_MissingAsInvalid(f) ==
  IF ~f.exists THEN "ConfigInvalid"
  ELSE IF ~f.wellFormed THEN "ConfigInvalid"
  ELSE IF ~RequiredOk(f.json) THEN "ConfigInvalid"
  ELSE "ok"

\* loadSpotifyConfig: the error thrown, or "ok".
LoadError(f) ==
  IF ~f.exists THEN "ConfigMissing"
  ELSE IF ~f.wellFormed THEN "ConfigInvalid"
  ELSE IF ~RequiredOk(f.json) THEN "ConfigInvalid"
  ELSE "ok"

loadSpotifyConfig(f) == f.json

saveSpotifyConfig(config) ==
  [exists |-> TRUE, wellFormed |-> TRUE, json |-> Stringify(config)]

(* ----------------------------- TokenManager --------------------------- *)

\* Mutant: the comparison is strict, a token expiring right now is kept.
shouldRefresh_Strict(config, t) ==
  \/ "expiresAt" \notin DOMAIN config
  \/ config.expiresAt = 0
  \/ config.expiresAt < t

\* Mutant: a token is refreshed one minute before it expires.
shouldRefresh_Early(config, t) ==
  \/ "expiresAt" \notin DOMAIN config
  \/ config.expiresAt = 0
  \/ config.expiresAt <= t + 60000

\* !config.expiresAt || config.expiresAt <= now
shouldRefresh(config, t) ==
  \/ "expiresAt" \notin DOMAIN config
  \/ config.expiresAt = 0
  \/ config.expiresAt <= t

\* Mutant: only the access token is required.
HasTokens_AccessOnly(config) ==
  TruthyStr(Get(config, "accessToken"))

\* config.accessToken && config.refreshToken
HasTokens(config) ==
  TruthyStr(Get(config, "accessToken")) /\ TruthyStr(Get(config, "refreshToken"))

Finish(p, result, value) ==
  /\ pc' = [pc EXCEPT ![p] = "done"]
  /\ outcome' = [outcome EXCEPT ![p] = result]
  /\ retval' = [retval EXCEPT ![p] = value]

\* Mutant: a call that needs no refresh leaves the cache as it is.
GetAccessTokenCall_KeepCache(p) ==
  /\ pc[p] = "idle"
  /\ IF LoadError(file) # "ok"
       THEN /\ Finish(p, LoadError(file), Undefined)
            /\ UNCHANGED <<cfg, now, refreshReqs, cachedAccessToken>>
       ELSE LET config == loadSpotifyConfig(file) IN
            /\ cfg' = [cfg EXCEPT ![p] = config]
            /\ IF ~HasTokens(config)
                 THEN /\ Finish(p, "Unauthenticated", Undefined)
                      /\ UNCHANGED <<now, refreshReqs, cachedAccessToken>>
                 ELSE /\ now' = [now EXCEPT ![p] = clock]
                      /\ IF shouldRefresh(config, clock)
                           THEN IF ~TruthyStr(Get(config, "refreshToken"))
                                  THEN /\ Finish(p, "RefreshFailed", Undefined)
                                       /\ UNCHANGED <<refreshReqs, cachedAccessToken>>
                                  ELSE /\ pc' = [pc EXCEPT ![p] = "refreshing"]
                                       /\ refreshReqs' = [refreshReqs EXCEPT ![p] = @ + 1]
                                       /\ UNCHANGED <<outcome, retval, cachedAccessToken>>
                           ELSE /\ Finish(p, "returned", config.accessToken)
                                /\ UNCHANGED <<refreshReqs, cachedAccessToken>>
  /\ UNCHANGED <<fetchVars, volVars, pendingWrite, clock, file, response, saved, authVars>>

\* Mutant: a call that needs no refresh returns the cached token if there is one.
GetAccessTokenCall_FromCache(p) ==
  /\ pc[p] = "idle"
  /\ IF LoadError(file) # "ok"
       THEN /\ Finish(p, LoadError(file), Undefined)
            /\ UNCHANGED <<cfg, now, refreshReqs, cachedAccessToken>>
       ELSE LET config == loadSpotifyConfig(file) IN
            /\ cfg' = [cfg EXCEPT ![p] = config]
            /\ IF ~HasTokens(config)
                 THEN /\ Finish(p, "Unauthenticated", Undefined)
                      /\ UNCHANGED <<now, refreshReqs, cachedAccessToken>>
                 ELSE /\ now' = [now EXCEPT ![p] = clock]
                      /\ IF shouldRefresh(config, clock)
                           THEN IF ~TruthyStr(Get(config, "refreshToken"))
                                  THEN /\ Finish(p, "RefreshFailed", Undefined)
                                       /\ UNCHANGED <<refreshReqs, cachedAccessToken>>
                                  ELSE /\ pc' = [pc EXCEPT ![p] = "refreshing"]
                                       /\ refreshReqs' = [refreshReqs EXCEPT ![p] = @ + 1]
                                       /\ UNCHANGED <<outcome, retval, cachedAccessToken>>
                           ELSE IF cachedAccessToken # Null
                                  THEN /\ Finish(p, "returned", cachedAccessToken)
                                       /\ UNCHANGED <<refreshReqs, cachedAccessToken>>
                                  ELSE /\ cachedAccessToken' = config.accessToken
                                       /\ Finish(p, "returned", config.accessToken)
                                       /\ UNCHANGED refreshReqs
  /\ UNCHANGED <<fetchVars, volVars, pendingWrite, clock, file, response, saved, authVars>>

\* getAccessToken up to `await refreshAccessToken(config)`.
GetAccessTokenCall(p) ==
  /\ pc[p] = "idle"
  /\ IF LoadError(file) # "ok"
       THEN /\ Finish(p, LoadError(file), Undefined)
            /\ UNCHANGED <<cfg, now, refreshReqs, cachedAccessToken>>
       ELSE LET config == loadSpotifyConfig(file) IN
            /\ cfg' = [cfg EXCEPT ![p] = config]
            /\ IF ~HasTokens(config)
                 THEN /\ Finish(p, "Unauthenticated", Undefined)
                      /\ UNCHANGED <<now, refreshReqs, cachedAccessToken>>
                 ELSE /\ now' = [now EXCEPT ![p] = clock]
                      /\ IF shouldRefresh(config, clock)
                           THEN IF ~TruthyStr(Get(config, "refreshToken"))
                                  THEN /\ Finish(p, "RefreshFailed", Undefined)
                                       /\ UNCHANGED <<refreshReqs, cachedAccessToken>>
                                  ELSE /\ pc' = [pc EXCEPT ![p] = "refreshing"]
                                       /\ refreshReqs' = [refreshReqs EXCEPT ![p] = @ + 1]
                                       /\ UNCHANGED <<outcome, retval, cachedAccessToken>>
                           ELSE /\ cachedAccessToken' = config.accessToken
                                /\ Finish(p, "returned", config.accessToken)
                                /\ UNCHANGED refreshReqs
  /\ UNCHANGED <<fetchVars, volVars, pendingWrite, clock, file, response, saved, authVars>>

\* Mutant: a failed refresh clears the stale access token from the record.
GetAccessTokenResume_ClearOnFail(p, resp) ==
  /\ pc[p] = "refreshing"
  /\ response' = [response EXCEPT ![p] = resp]
  /\ IF ~resp.ok
       THEN /\ Finish(p, "RefreshFailed", Undefined)
            /\ file' = saveSpotifyConfig(Put(cfg[p], "accessToken", Undefined))
            /\ UNCHANGED <<saved, cachedAccessToken>>
       ELSE LET tokens == [access_token |-> Get(resp.data, "access_token"),
                           expires_in |-> ExpiresInOrDefault(resp.data)]
                config == Put(Put(cfg[p], "accessToken", tokens.access_token),
                              "expiresAt", now[p] + tokens.expires_in * 1000)
            IN  /\ file' = saveSpotifyConfig(config)
                /\ saved' = [saved EXCEPT ![p] = TRUE]
                /\ cachedAccessToken' = config.accessToken
                /\ Finish(p, "returned", config.accessToken)
  /\ UNCHANGED <<fetchVars, volVars, pendingWrite, clock, cfg, now, refreshReqs, authVars>>

\* Mutant: expiresAt is counted from the time the answer arrives.
GetAccessTokenResume_FreshNow(p, resp) ==
  /\ pc[p] = "refreshing"
  /\ response' = [response EXCEPT ![p] = resp]
  /\ IF ~resp.ok
       THEN /\ Finish(p, "RefreshFailed", Undefined)
            /\ UNCHANGED <<file, saved, cachedAccessToken>>
       ELSE LET tokens == [access_token |-> Get(resp.data, "access_token"),
                           expires_in |-> ExpiresInOrDefault(resp.data)]
                config == Put(Put(cfg[p], "accessToken", tokens.access_token),
                              "expiresAt", clock + tokens.expires_in * 1000)
            IN  /\ file' = saveSpotifyConfig(config)
                /\ saved' = [saved EXCEPT ![p] = TRUE]
                /\ cachedAccessToken' = config.accessToken
                /\ Finish(p, "returned", config.accessToken)
  /\ UNCHANGED <<fetchVars, volVars, pendingWrite, clock, cfg, now, refreshReqs, authVars>>

\* Mutant: a call whose record was replaced while it refreshed keeps the
\* persisted record and returns its token.
GetAccessTokenResume_SkipIfNewer(p, resp) ==
  /\ pc[p] = "refreshing"
  /\ response' = [response EXCEPT ![p] = resp]
  /\ IF ~resp.ok
       THEN /\ Finish(p, "RefreshFailed", Undefined)
            /\ UNCHANGED <<file, saved, cachedAccessToken>>
       ELSE LET tokens == [access_token |-> Get(resp.data, "access_token"),
                           expires_in |-> ExpiresInOrDefault(resp.data)]
                config == Put(Put(cfg[p], "accessToken", tokens.access_token),
                              "expiresAt", now[p] + tokens.expires_in * 1000)
            IN  IF LoadError(file) = "ok" /\ loadSpotifyConfig(file) # cfg[p]
                  THEN /\ cachedAccessToken' = loadSpotifyConfig(file).accessToken
                       /\ Finish(p, "returned", loadSpotifyConfig(file).accessToken)
                       /\ UNCHANGED <<file, saved>>
                  ELSE /\ file' = saveSpotifyConfig(config)
                       /\ saved' = [saved EXCEPT ![p] = TRUE]
                       /\ cachedAccessToken' = config.accessToken
                       /\ Finish(p, "returned", config.accessToken)
  /\ UNCHANGED <<fetchVars, volVars, pendingWrite, clock, cfg, now, refreshReqs, authVars>>

\* The rest of getAccessToken, run when the token endpoint has answered (or
\* the request has failed).
GetAccessTokenResume(p, resp) ==
  /\ pc[p] = "refreshing"
  /\ response' = [response EXCEPT ![p] = resp]
  /\ IF ~resp.ok
       THEN /\ Finish(p, "RefreshFailed", Undefined)
            /\ UNCHANGED <<file, saved, cachedAccessToken>>
       ELSE LET tokens == [access_token |-> Get(resp.data, "access_token"),
                           expires_in |-> ExpiresInOrDefault(resp.data)]
                config == Put(Put(cfg[p], "accessToken", tokens.access_token),
                              "expiresAt", now[p] + tokens.expires_in * 1000)
            IN  /\ file' = saveSpotifyConfig(config)
                /\ saved' = [saved EXCEPT ![p] = TRUE]
                /\ cachedAccessToken' = config.accessToken
                /\ Finish(p, "returned", config.accessToken)
  /\ UNCHANGED <<fetchVars, volVars, pendingWrite, clock, cfg, now, refreshReqs, authVars>>

\* The caller has taken the result of its call and may call again.
NextCall(p) ==
  /\ pc[p] \in {"done", "finished"}
  /\ apiReqs' = [apiReqs EXCEPT ![p] = 0]
  /\ apiResp' = [apiResp EXCEPT ![p] = NoObject]
  /\ fetchResult' = [fetchResult EXCEPT ![p] = NoResult]
  /\ pc' = [pc EXCEPT ![p] = "idle"]
  /\ cfg' = [cfg EXCEPT ![p] = NoObject]
  /\ now' = [now EXCEPT ![p] = 0]
  /\ response' = [response EXCEPT ![p] = NoObject]
  /\ refreshReqs' = [refreshReqs EXCEPT ![p] = 0]
  /\ saved' = [saved EXCEPT ![p] = FALSE]
  /\ outcome' = [outcome EXCEPT ![p] = "none"]
  /\ retval' = [retval EXCEPT ![p] = Undefined]
  /\ UNCHANGED <<volVars, pendingWrite, clock, file, cachedAccessToken, authVars>>

\* Mutant: a flow pending for two ticks is rejected and its listener closed.
Tick_Timeout ==
  /\ clock < MaxClock
  /\ clock' = clock + TickMs
  /\ IF authPc = "pending" /\ clock' - authStart >= 2 * TickMs
       THEN /\ authPc' = "rejected"
            /\ authErr' = "Timeout"
            /\ server' = "closed"
            /\ UNCHANGED <<authConfig, authState, authStart, browser,
                           reqPc, reqPage, exchangeReqs, authSaves>>
       ELSE UNCHANGED authVars
  /\ UNCHANGED <<fetchVars, volVars, pendingWrite, file, tmVars>>

\* Time passes: Date.now() grows between two steps.
Tick ==
  /\ clock < MaxClock
  /\ clock' = clock + TickMs
  /\ UNCHANGED <<fetchVars, volVars, pendingWrite, file, tmVars, authVars>>

(* ------------------- a second process sharing the file ---------------- *)

\* The records another process of the program saves after a refresh of the
\* persisted record.
OtherSaves ==
  {Put(Put(file.json, "accessToken", t), "expiresAt", clock + DefaultExpiresIn * 1000) :
     t \in NewTokens}

\* fs.writeFileSync in another process, first half: the file is opened with
\* O_TRUNC and is empty.
WriteFileOpen ==
  /\ ~pendingWrite.active
  /\ LoadError(file) = "ok"
  /\ HasTokens(file.json)
  /\ \E config \in OtherSaves :
       pendingWrite' = [active |-> TRUE, old |-> file, new |-> saveSpotifyConfig(config)]
  /\ file' = [exists |-> TRUE, wellFormed |-> FALSE, json |-> NoObject]
  /\ UNCHANGED <<clock, tmVars, authVars, fetchVars, volVars>>

\* fs.writeFileSync in another process, second half: the text is written.
WriteFileData ==
  /\ pendingWrite.active
  /\ file' = pendingWrite.new
  /\ pendingWrite' = NoWrite
  /\ UNCHANGED <<clock, tmVars, authVars, fetchVars, volVars>>

(* ----------------------------- RequestGateway ------------------------- *)

ApiStatuses == {200, 204, 300, 404}

\* Response bodies: empty, JSON, not JSON.
ApiTexts == {"", "[1]", "OK"}

\* What fetch() gives spotifyFetch: a rejection, or a response.
ApiResponses ==
  {[failed |-> TRUE]}
    \cup {[failed |-> FALSE, status |-> st, text |-> t] : st \in ApiStatuses, t \in ApiTexts}

\* response.ok
ResponseOk(resp) == resp.status >= 200 /\ resp.status <= 299

\* JSON.parse(text) succeeds
IsJson(t) == t \in {"[1]"}

\* JSON.parse(text)
JsonParse(t) == CASE t = "[1]" -> <<1>>

\* Mutant: a 2xx body that is not JSON makes spotifyFetch throw.
SpotifyFetchResult_ThrowOnBadJson(resp) ==
  IF resp.failed THEN [kind |-> "FetchFailed"]
  ELSE IF ~ResponseOk(resp)
    THEN [kind |-> "ApiError", status |-> resp.status, text |-> resp.text]
  ELSE IF resp.text = "" THEN [kind |-> "absent"]
  ELSE IF IsJson(resp.text) THEN [kind |-> "value", value |-> JsonParse(resp.text)]
  ELSE [kind |-> "SyntaxError"]

\* spotifyFetch from `const response = await fetch(...)` to its end.
SpotifyFetchResult(resp) ==
  IF resp.failed THEN [kind |-> "FetchFailed"]
  ELSE IF ~ResponseOk(resp)
    THEN [kind |-> "ApiError", status |-> resp.status, text |-> resp.text]
  ELSE IF resp.text = "" THEN [kind |-> "absent"]
  ELSE IF IsJson(resp.text) THEN [kind |-> "value", value |-> JsonParse(resp.text)]
  ELSE [kind |-> "absent"]

\* spotifyFetch after `await getAccessToken()`: an error of getAccessToken
\* leaves spotifyFetch as it is, a token is sent with the API request.
SpotifyFetchCall(p) ==
  /\ pc[p] = "done"
  /\ IF outcome[p] # "returned"
       THEN /\ pc' = [pc EXCEPT ![p] = "finished"]
            /\ fetchResult' = [fetchResult EXCEPT ![p] = [kind |-> outcome[p]]]
            /\ UNCHANGED apiReqs
       ELSE /\ pc' = [pc EXCEPT ![p] = "fetching"]
            /\ apiReqs' = [apiReqs EXCEPT ![p] = @ + 1]
            /\ UNCHANGED fetchResult
  /\ UNCHANGED <<volVars, clock, file, cachedAccessToken, cfg, now, response, refreshReqs, saved,
                 outcome, retval, authVars, apiResp, pendingWrite>>

\* Mutant: a non-2xx answer is retried once.
SpotifyFetchResume_Retry(p, resp) ==
  /\ pc[p] = "fetching"
  /\ apiResp' = [apiResp EXCEPT ![p] = resp]
  /\ IF ~resp.failed /\ ~ResponseOk(resp) /\ apiReqs[p] < 2
       THEN /\ apiReqs' = [apiReqs EXCEPT ![p] = @ + 1]
            /\ UNCHANGED <<pc, fetchResult>>
       ELSE /\ pc' = [pc EXCEPT ![p] = "finished"]
            /\ fetchResult' = [fetchResult EXCEPT ![p] = SpotifyFetchResult(resp)]
            /\ UNCHANGED apiReqs
  /\ UNCHANGED <<volVars, clock, file, cachedAccessToken, cfg, now, response, refreshReqs, saved,
                 outcome, retval, authVars, pendingWrite>>

\* The rest of spotifyFetch, run when the resource API has answered.
SpotifyFetchResume(p, resp) ==
  /\ pc[p] = "fetching"
  /\ pc' = [pc EXCEPT ![p] = "finished"]
  /\ apiResp' = [apiResp EXCEPT ![p] = resp]
  /\ fetchResult' = [fetchResult EXCEPT ![p] = SpotifyFetchResult(resp)]
  /\ UNCHANGED <<volVars, clock, file, cachedAccessToken, cfg, now, response, refreshReqs, saved,
                 outcome, retval, authVars, apiReqs, pendingWrite>>

(* ------------------------------ adjustVolume -------------------------- *)

\* z.number().min(-100)
MinAdjustment == -100

\* z.number().max(100)
MaxAdjustment == 100

\* Math.max(0, ...)
MinVolume == 0

\* Math.min(100, ...)
MaxVolume == 100

\* args.adjustment as the schema admits it, in steps of 1/Scale.
Adjustments == (MinAdjustment * Scale)..(MaxAdjustment * Scale)

\* device.volume_percent: number | null
VolumeValues ==
  {[null |-> TRUE]} \cup {[null |-> FALSE, n |-> v] : v \in 0..MaxDeviceVolume}

\* playback.device: an object with or without volume_percent
Devices == {NoObject} \cup {[volume_percent |-> vv] : vv \in VolumeValues}

\* What spotifyFetch('/me/player') gives: an error, nothing (empty body), or
\* a playback state with or without a device.
PlaybackResults ==
  {[kind |-> "error"], [kind |-> "absent"], [kind |-> "value", value |-> NoObject]}
    \cup {[kind |-> "value", value |-> [device |-> d]] : d \in Devices}

MathMin(a, b) == IF a <= b THEN a ELSE b

MathMax(a, b) == IF a >= b THEN a ELSE b

\* Math.round of n / Scale: the nearest integer, halves upwards.
MathRound(n) == (2 * n + Scale) \div (2 * Scale)

\* Mutant: the sum is not limited from above.
NewVolume_NoUpperLimit(currentVolume, adj) ==
  MathMax(MinVolume * Scale, currentVolume * Scale + adj)

\* Math.min(100, Math.max(0, currentVolume + adjustment)), in steps of 1/Scale.
NewVolume(currentVolume, adj) ==
  MathMin(MaxVolume * Scale, MathMax(MinVolume * Scale, currentVolume * Scale + adj))

\* !playback?.device: no playback state, or one whose device is null or
\* undefined (no device key).
NoDevice(res) == res.kind = "absent" \/ "device" \notin DOMAIN res.value

\* currentVolume === null || currentVolume === undefined
NoVolume(device) == "volume_percent" \notin DOMAIN device \/ device.volume_percent.null

\* The handler of adjustVolume up to `await spotifyFetch('/me/player')`.
AdjustVolumeCall ==
  /\ volPc = "idle"
  /\ volPc' = "getting"
  /\ adjustment' \in Adjustments
  /\ UNCHANGED <<playback, volumeReqs, volReply>>
  /\ UNCHANGED <<clock, file, tmVars, authVars, fetchVars, pendingWrite>>

\* The handler from the answer of the first spotifyFetch up to the await of
\* the second.
AdjustVolumePlayback(res) ==
  /\ volPc = "getting"
  /\ playback' = res
  /\ IF res.kind = "error"
       THEN volPc' = "done" /\ volReply' = "Error adjusting volume" /\ UNCHANGED volumeReqs
     ELSE IF NoDevice(res)
       THEN volPc' = "done" /\ volReply' = "No active device found" /\ UNCHANGED volumeReqs
     ELSE IF NoVolume(res.value.device)
       THEN volPc' = "done" /\ volReply' = "Unable to get current volume" /\ UNCHANGED volumeReqs
     ELSE /\ volPc' = "putting"
          /\ volumeReqs' =
               Append(volumeReqs, MathRound(NewVolume(res.value.device.volume_percent.n, adjustment)))
          /\ UNCHANGED volReply
  /\ UNCHANGED adjustment
  /\ UNCHANGED <<clock, file, tmVars, authVars, fetchVars, pendingWrite>>

\* The rest of the handler, run when the PUT has been answered or has failed.
AdjustVolumeDone(ok) ==
  /\ volPc = "putting"
  /\ volPc' = "done"
  /\ volReply' = IF ~ok THEN "Error adjusting volume"
                 ELSE IF adjustment > 0 THEN "Volume increased"
                 ELSE "Volume decreased"
  /\ UNCHANGED <<adjustment, playback, volumeReqs>>
  /\ UNCHANGED <<clock, file, tmVars, authVars, fetchVars, pendingWrite>>

\* The tool may be called again.
AdjustVolumeNext ==
  /\ volPc = "done"
  /\ volPc' = "idle"
  /\ adjustment' = 0
  /\ playback' = NoResult
  /\ volumeReqs' = <<>>
  /\ volReply' = "none"
  /\ UNCHANGED <<clock, file, tmVars, authVars, fetchVars, pendingWrite>>

(* --------------------------- AuthorizationFlow ------------------------ *)

\* generateRandomString(16)
States == {"sA", "sB"}

\* new URL(config.redirectUri)
ParseURL(u) ==
  CASE u = "http://127.0.0.1:8888/callback" ->
         [hostname |-> "127.0.0.1", port |-> "8888", pathname |-> "/callback"]
    [] u = "http://localhost/callback" ->
         [hostname |-> "localhost", port |-> "", pathname |-> "/callback"]
    [] OTHER ->
         [hostname |-> "example.com", port |-> "", pathname |-> "/callback"]

\* Mutant: every host is accepted.
IsLoopback_NoCheck(u) == TRUE

\* hostname is 'localhost' or '127.0.0.1'
IsLoopback(u) ==
  ~(ParseURL(u).hostname # "localhost" /\ ParseURL(u).hostname # "127.0.0.1")

\* redirectUri.pathname || '/callback'
callbackPath(config) ==
  IF ParseURL(config.redirectUri).pathname # ""
    THEN ParseURL(config.redirectUri).pathname
    ELSE "/callback"

\* reqUrl.searchParams.get(k)
SearchGet(params, k) == IF k \in DOMAIN params THEN params[k] ELSE Null

\* Query strings of a request: each of code, state, error is missing, empty
\* or set.
ParamValues(k) ==
  CASE k = "code" -> {"", "c1"}
    [] k = "state" -> States
    [] k = "error" -> {"", "access_denied"}

QueryKeys == {"code", "state", "error"}

Queries ==
  UNION {{q \in [ks -> {"", "c1", "access_denied"} \cup States] :
            \A k \in ks : q[k] \in ParamValues(k)} : ks \in SUBSET QueryKeys}

\* req.url: missing, the callback path with a query, or another path.
Requests ==
  {[hasUrl |-> FALSE, path |-> "", params |-> NoObject],
   [hasUrl |-> TRUE, path |-> "/favicon.ico", params |-> NoObject]}
    \cup {[hasUrl |-> TRUE, path |-> "/callback", params |-> q] : q \in Queries}

\* Mutant: every reject or resolve replaces the outcome.
Settle_Overwrite(result, err) ==
  authPc' = result /\ authErr' = err

\* reject(err) / resolve(): a promise settles once, later calls do nothing.
Settle(result, err) ==
  IF authPc = "pending"
    THEN authPc' = result /\ authErr' = err
    ELSE UNCHANGED <<authPc, authErr>>

\* server.close()
Closed(s) == IF s \in {"binding", "listening"} THEN "closed" ELSE s

\* authorizeSpotify up to `await authPromise`, server.listen() included.
AuthorizeSpotify ==
  /\ authPc = "idle"
  /\ IF LoadError(file) # "ok"
       THEN /\ authPc' = "threw"
            /\ authErr' = LoadError(file)
            /\ UNCHANGED <<authConfig, authState, authStart, server>>
       ELSE LET config == loadSpotifyConfig(file) IN
            IF ~IsLoopback(config.redirectUri)
              THEN /\ authPc' = "exited"
                   /\ UNCHANGED <<authErr, authConfig, authState, authStart, server>>
              ELSE /\ authPc' = "pending"
                   /\ authConfig' = config
                   /\ authState' \in States
                   /\ authStart' = clock
                   /\ server' = "binding"
                   /\ UNCHANGED authErr
  /\ UNCHANGED <<fetchVars, volVars, pendingWrite, clock, file, tmVars, browser, reqPc, reqPage, exchangeReqs, authSaves>>

\* The callback of server.listen: the port is bound, the browser is opened.
Listening ==
  /\ server = "binding"
  /\ server' = "listening"
  /\ browser' = TRUE
  /\ UNCHANGED <<fetchVars, volVars, pendingWrite, clock, file, tmVars, authPc, authErr, authConfig, authState, authStart,
                 reqPc, reqPage, exchangeReqs, authSaves>>

\* server.on('error'): the bind failed, or accepting a connection failed on
\* the bound listener; the handler rejects and does not close.
ServerError ==
  /\ server \in {"binding", "listening"}
  /\ server' = IF server = "binding" THEN "failed" ELSE server
  /\ Settle("rejected", "ServerError")
  /\ UNCHANGED <<fetchVars, volVars, pendingWrite, clock, file, tmVars, authConfig, authState, authStart, browser,
                 reqPc, reqPage, exchangeReqs, authSaves>>

\* Mutant: the returned state is not compared with the generated one.
HandleRequest_NoStateCheck(r, req) ==
  /\ server = "listening"
  /\ reqPc[r] = "new"
  /\ LET code == SearchGet(req.params, "code")
         returnedState == SearchGet(req.params, "state")
         error == SearchGet(req.params, "error")
         fail(err) ==
           /\ reqPage' = [reqPage EXCEPT ![r] = "failed"]
           /\ reqPc' = [reqPc EXCEPT ![r] = "done"]
           /\ server' = Closed(server)
           /\ Settle("rejected", err)
           /\ UNCHANGED exchangeReqs
     IN  IF ~req.hasUrl
           THEN /\ reqPage' = [reqPage EXCEPT ![r] = "No URL provided"]
                /\ reqPc' = [reqPc EXCEPT ![r] = "done"]
                /\ UNCHANGED <<server, authPc, authErr, exchangeReqs>>
         ELSE IF req.path # callbackPath(authConfig)
           THEN /\ reqPage' = [reqPage EXCEPT ![r] = "404"]
                /\ reqPc' = [reqPc EXCEPT ![r] = "done"]
                /\ UNCHANGED <<server, authPc, authErr, exchangeReqs>>
         ELSE IF TruthyStr(error) THEN fail("AuthorizationDenied")
         ELSE IF ~TruthyStr(code) THEN fail("MissingCode")
         ELSE /\ reqPc' = [reqPc EXCEPT ![r] = "exchanging"]
              /\ exchangeReqs' = exchangeReqs + 1
              /\ UNCHANGED <<reqPage, server, authPc, authErr>>
  /\ UNCHANGED <<fetchVars, volVars, pendingWrite, clock, file, tmVars, authConfig, authState, authStart, browser, authSaves>>

\* Mutant: the state is checked before the error parameter.
HandleRequest_StateFirst(r, req) ==
  /\ server = "listening"
  /\ reqPc[r] = "new"
  /\ LET code == SearchGet(req.params, "code")
         returnedState == SearchGet(req.params, "state")
         error == SearchGet(req.params, "error")
         fail(err) ==
           /\ reqPage' = [reqPage EXCEPT ![r] = "failed"]
           /\ reqPc' = [reqPc EXCEPT ![r] = "done"]
           /\ server' = Closed(server)
           /\ Settle("rejected", err)
           /\ UNCHANGED exchangeReqs
     IN  IF ~req.hasUrl
           THEN /\ reqPage' = [reqPage EXCEPT ![r] = "No URL provided"]
                /\ reqPc' = [reqPc EXCEPT ![r] = "done"]
                /\ UNCHANGED <<server, authPc, authErr, exchangeReqs>>
         ELSE IF req.path # callbackPath(authConfig)
           THEN /\ reqPage' = [reqPage EXCEPT ![r] = "404"]
                /\ reqPc' = [reqPc EXCEPT ![r] = "done"]
                /\ UNCHANGED <<server, authPc, authErr, exchangeReqs>>
         ELSE IF returnedState # authState THEN fail("StateMismatch")
         ELSE IF TruthyStr(error) THEN fail("AuthorizationDenied")
         ELSE IF ~TruthyStr(code) THEN fail("MissingCode")
         ELSE /\ reqPc' = [reqPc EXCEPT ![r] = "exchanging"]
              /\ exchangeReqs' = exchangeReqs + 1
              /\ UNCHANGED <<reqPage, server, authPc, authErr>>
  /\ UNCHANGED <<fetchVars, volVars, pendingWrite, clock, file, tmVars, authConfig, authState, authStart, browser, authSaves>>

\* Mutant: a callback without a code goes on to the exchange.
HandleRequest_NoCodeCheck(r, req) ==
  /\ server = "listening"
  /\ reqPc[r] = "new"
  /\ LET code == SearchGet(req.params, "code")
         returnedState == SearchGet(req.params, "state")
         error == SearchGet(req.params, "error")
         fail(err) ==
           /\ reqPage' = [reqPage EXCEPT ![r] = "failed"]
           /\ reqPc' = [reqPc EXCEPT ![r] = "done"]
           /\ server' = Closed(server)
           /\ Settle("rejected", err)
           /\ UNCHANGED exchangeReqs
     IN  IF ~req.hasUrl
           THEN /\ reqPage' = [reqPage EXCEPT ![r] = "No URL provided"]
                /\ reqPc' = [reqPc EXCEPT ![r] = "done"]
                /\ UNCHANGED <<server, authPc, authErr, exchangeReqs>>
         ELSE IF req.path # callbackPath(authConfig)
           THEN /\ reqPage' = [reqPage EXCEPT ![r] = "404"]
                /\ reqPc' = [reqPc EXCEPT ![r] = "done"]
                /\ UNCHANGED <<server, authPc, authErr, exchangeReqs>>
         ELSE IF TruthyStr(error) THEN fail("AuthorizationDenied")
         ELSE IF returnedState # authState THEN fail("StateMismatch")
         ELSE /\ reqPc' = [reqPc EXCEPT ![r] = "exchanging"]
              /\ exchangeReqs' = exchangeReqs + 1
              /\ UNCHANGED <<reqPage, server, authPc, authErr>>
  /\ UNCHANGED <<fetchVars, volVars, pendingWrite, clock, file, tmVars, authConfig, authState, authStart, browser, authSaves>>

\* Mutant: a request to another path closes the listener.
HandleRequest_CloseOn404(r, req) ==
  /\ server = "listening"
  /\ reqPc[r] = "new"
  /\ LET code == SearchGet(req.params, "code")
         returnedState == SearchGet(req.params, "state")
         error == SearchGet(req.params, "error")
         fail(err) ==
           /\ reqPage' = [reqPage EXCEPT ![r] = "failed"]
           /\ reqPc' = [reqPc EXCEPT ![r] = "done"]
           /\ server' = Closed(server)
           /\ Settle("rejected", err)
           /\ UNCHANGED exchangeReqs
     IN  IF ~req.hasUrl
           THEN /\ reqPage' = [reqPage EXCEPT ![r] = "No URL provided"]
                /\ reqPc' = [reqPc EXCEPT ![r] = "done"]
                /\ UNCHANGED <<server, authPc, authErr, exchangeReqs>>
         ELSE IF req.path # callbackPath(authConfig)
           THEN /\ reqPage' = [reqPage EXCEPT ![r] = "404"]
                /\ reqPc' = [reqPc EXCEPT ![r] = "done"]
                /\ server' = Closed(server)
                /\ UNCHANGED <<authPc, authErr, exchangeReqs>>
         ELSE IF TruthyStr(error) THEN fail("AuthorizationDenied")
         ELSE IF returnedState # authState THEN fail("StateMismatch")
         ELSE IF ~TruthyStr(code) THEN fail("MissingCode")
         ELSE /\ reqPc' = [reqPc EXCEPT ![r] = "exchanging"]
              /\ exchangeReqs' = exchangeReqs + 1
              /\ UNCHANGED <<reqPage, server, authPc, authErr>>
  /\ UNCHANGED <<fetchVars, volVars, pendingWrite, clock, file, tmVars, authConfig, authState, authStart, browser, authSaves>>

\* The request handler of http.createServer up to `await exchangeCodeForToken`.
HandleRequest(r, req) ==
  /\ server = "listening"
  /\ reqPc[r] = "new"
  /\ LET code == SearchGet(req.params, "code")
         returnedState == SearchGet(req.params, "state")
         error == SearchGet(req.params, "error")
         fail(err) ==
           /\ reqPage' = [reqPage EXCEPT ![r] = "failed"]
           /\ reqPc' = [reqPc EXCEPT ![r] = "done"]
           /\ server' = Closed(server)
           /\ Settle("rejected", err)
           /\ UNCHANGED exchangeReqs
     IN  IF ~req.hasUrl
           THEN /\ reqPage' = [reqPage EXCEPT ![r] = "No URL provided"]
                /\ reqPc' = [reqPc EXCEPT ![r] = "done"]
                /\ UNCHANGED <<server, authPc, authErr, exchangeReqs>>
         ELSE IF req.path # callbackPath(authConfig)
           THEN /\ reqPage' = [reqPage EXCEPT ![r] = "404"]
                /\ reqPc' = [reqPc EXCEPT ![r] = "done"]
                /\ UNCHANGED <<server, authPc, authErr, exchangeReqs>>
         ELSE IF TruthyStr(error) THEN fail("AuthorizationDenied")
         ELSE IF returnedState # authState THEN fail("StateMismatch")
         ELSE IF ~TruthyStr(code) THEN fail("MissingCode")
         ELSE /\ reqPc' = [reqPc EXCEPT ![r] = "exchanging"]
              /\ exchangeReqs' = exchangeReqs + 1
              /\ UNCHANGED <<reqPage, server, authPc, authErr>>
  /\ UNCHANGED <<fetchVars, volVars, pendingWrite, clock, file, tmVars, authConfig, authState, authStart, browser, authSaves>>

\* Mutant: a failed exchange leaves the listener open.
ExchangeResume_NoCloseOnFail(r, resp) ==
  /\ reqPc[r] = "exchanging"
  /\ reqPc' = [reqPc EXCEPT ![r] = "done"]
  /\ server' = IF resp.ok THEN Closed(server) ELSE server
  /\ IF ~resp.ok
       THEN /\ reqPage' = [reqPage EXCEPT ![r] = "failed"]
            /\ Settle("rejected", "TokenExchangeFailed")
            /\ UNCHANGED <<file, authConfig, authSaves>>
       ELSE LET tk == [access_token |-> Get(resp.data, "access_token"),
                       refresh_token |-> Get(resp.data, "refresh_token"),
                       expires_in |-> ExpiresInOrDefault(resp.data)]
                config == Put(Put(Put(authConfig, "accessToken", tk.access_token),
                                  "refreshToken", tk.refresh_token),
                              "expiresAt", clock + tk.expires_in * 1000)
            IN  /\ authConfig' = config
                /\ file' = saveSpotifyConfig(config)
                /\ authSaves' = authSaves + 1
                /\ reqPage' = [reqPage EXCEPT ![r] = "success"]
                /\ Settle("resolved", "none")
  /\ UNCHANGED <<fetchVars, volVars, pendingWrite, clock, tmVars, authState, authStart, browser, exchangeReqs>>

\* The rest of the request handler, run when the token endpoint has answered.
ExchangeResume(r, resp) ==
  /\ reqPc[r] = "exchanging"
  /\ reqPc' = [reqPc EXCEPT ![r] = "done"]
  /\ server' = Closed(server)
  /\ IF ~resp.ok
       THEN /\ reqPage' = [reqPage EXCEPT ![r] = "failed"]
            /\ Settle("rejected", "TokenExchangeFailed")
            /\ UNCHANGED <<file, authConfig, authSaves>>
       ELSE LET tk == [access_token |-> Get(resp.data, "access_token"),
                       refresh_token |-> Get(resp.data, "refresh_token"),
                       expires_in |-> ExpiresInOrDefault(resp.data)]
                config == Put(Put(Put(authConfig, "accessToken", tk.access_token),
                                  "refreshToken", tk.refresh_token),
                              "expiresAt", clock + tk.expires_in * 1000)
            IN  /\ authConfig' = config
                /\ file' = saveSpotifyConfig(config)
                /\ authSaves' = authSaves + 1
                /\ reqPage' = [reqPage EXCEPT ![r] = "success"]
                /\ Settle("resolved", "none")
  /\ UNCHANGED <<fetchVars, volVars, pendingWrite, clock, tmVars, authState, authStart, browser, exchangeReqs>>

(* ------------------------------ Init ---------------------------------- *)

BaseConfigs ==
  {[clientId |-> "id", clientSecret |-> "secret", redirectUri |-> u] :
     u \in {"http://127.0.0.1:8888/callback"}}

BadConfigs ==
  {[clientId |-> "id", clientSecret |-> "secret"],
   [clientId |-> "id", clientSecret |-> "secret", redirectUri |-> "https://example.com/callback"]}

InitConfigs ==
  BaseConfigs
    \cup {Put(Put(c, "accessToken", "t0"), "refreshToken", "r0") : c \in BaseConfigs}
    \cup {Put(Put(Put(c, "accessToken", "t0"), "refreshToken", "r0"), "expiresAt", e) :
            c \in BaseConfigs, e \in {StartClock, StartClock + 2 * TickMs}}

InitFiles ==
  {[exists |-> FALSE, wellFormed |-> FALSE, json |-> NoObject],
   [exists |-> TRUE, wellFormed |-> FALSE, json |-> NoObject]}
    \cup {[exists |-> TRUE, wellFormed |-> TRUE, json |-> c] : c \in InitConfigs \cup BadConfigs}

Init ==
  /\ clock = StartClock
  /\ file \in InitFiles
  /\ cachedAccessToken = Null
  /\ pc = [p \in Procs |-> "idle"]
  /\ cfg = [p \in Procs |-> NoObject]
  /\ now = [p \in Procs |-> 0]
  /\ response = [p \in Procs |-> NoObject]
  /\ refreshReqs = [p \in Procs |-> 0]
  /\ saved = [p \in Procs |-> FALSE]
  /\ outcome = [p \in Procs |-> "none"]
  /\ retval = [p \in Procs |-> Undefined]
  /\ authPc = "idle"
  /\ authErr = "none"
  /\ authConfig = NoObject
  /\ authState = Undefined
  /\ authStart = 0
  /\ server = "none"
  /\ browser = FALSE
  /\ reqPc = [r \in Reqs |-> "new"]
  /\ reqPage = [r \in Reqs |-> "none"]
  /\ exchangeReqs = 0
  /\ authSaves = 0
  /\ apiReqs = [p \in Procs |-> 0]
  /\ apiResp = [p \in Procs |-> NoObject]
  /\ fetchResult = [p \in Procs |-> NoResult]
  /\ pendingWrite = NoWrite
  /\ volPc = "idle"
  /\ adjustment = 0
  /\ playback = NoResult
  /\ volumeReqs = <<>>
  /\ volReply = "none"

\* The callers of getAccessToken alone.
NextTM ==
  \/ Tick
  \/ \E p \in Procs : GetAccessTokenCall(p)
  \/ \E p \in Procs, resp \in Responses(RefreshData) : GetAccessTokenResume(p, resp)
  \/ \E p \in Procs : NextCall(p)

SpecTM == Init /\ [][NextTM]_vars

\* One authorization flow alone.
NextAuth ==
  \/ Tick
  \/ AuthorizeSpotify
  \/ Listening
  \/ ServerError
  \/ \E r \in Reqs, req \in Requests : HandleRequest(r, req)
  \/ \E r \in Reqs, resp \in Responses(ExchangeData) : ExchangeResume(r, resp)

SpecAuth == Init /\ [][NextAuth]_vars

\* spotifyFetch by caller p1 next to getAccessToken calls by both callers.
NextFetch ==
  \/ Tick
  \/ \E p \in Procs : GetAccessTokenCall(p)
  \/ \E p \in Procs, resp \in Responses(RefreshData) : GetAccessTokenResume(p, resp)
  \/ \E p \in Procs : NextCall(p)
  \/ SpotifyFetchCall("p1")
  \/ \E resp \in ApiResponses : SpotifyFetchResume("p1", resp)

SpecFetch == Init /\ [][NextFetch]_vars

\* One caller of getAccessToken next to a second process that saves.
NextStore ==
  \/ Tick
  \/ GetAccessTokenCall("p1")
  \/ \E resp \in Responses(RefreshData) : GetAccessTokenResume("p1", resp)
  \/ NextCall("p1")
  \/ WriteFileOpen
  \/ WriteFileData

SpecStore == Init /\ [][NextStore]_vars

\* The three operations that start with loadSpotifyConfig: getAccessToken and
\* spotifyFetch by caller p1, and the start of an authorization flow.
NextLoad ==
  \/ Tick
  \/ GetAccessTokenCall("p1")
  \/ \E resp \in Responses(RefreshData) : GetAccessTokenResume("p1", resp)
  \/ NextCall("p1")
  \/ SpotifyFetchCall("p1")
  \/ \E resp \in ApiResponses : SpotifyFetchResume("p1", resp)
  \/ AuthorizeSpotify
  \/ Listening
  \/ ServerError

SpecLoad == Init /\ [][NextLoad]_vars

\* Calls of the adjustVolume tool alone.
NextVolume ==
  \/ AdjustVolumeCall
  \/ \E res \in PlaybackResults : AdjustVolumePlayback(res)
  \/ \E ok \in BOOLEAN : AdjustVolumeDone(ok)
  \/ AdjustVolumeNext

SpecVolume == Init /\ [][NextVolume]_vars

\* One caller of getAccessToken next to an authorization flow that receives
\* one request.
Next ==
  \/ Tick
  \/ GetAccessTokenCall("p1")
  \/ \E resp \in Responses(RefreshData) : GetAccessTokenResume("p1", resp)
  \/ NextCall("p1")
  \/ AuthorizeSpotify
  \/ Listening
  \/ ServerError
  \/ \E req \in Requests : HandleRequest("r1", req)
  \/ \E resp \in Responses(ExchangeData) : ExchangeResume("r1", resp)

Spec == Init /\ [][Next]_vars

(* ------------------------------ claims -------------------------------- *)

\* The record holds both tokens.
HoldsBoth(c) == "accessToken" \in DOMAIN c /\ "refreshToken" \in DOMAIN c

\* expiresAt is absent or <= t.
Stale(c, t) == "expiresAt" \notin DOMAIN c \/ c.expiresAt <= t

\* load() succeeds on the file.
Loadable(f) ==
  /\ f.exists
  /\ f.wellFormed
  /\ {"clientId", "clientSecret", "redirectUri"} \subseteq DOMAIN f.json

\* C1: a call to getAccessToken that loads a record with both tokens whose
\* expiresAt is absent or <= now has sent exactly one refresh request by the
\* time it returns or fails, and never more than one while it runs.
C1_ExactlyOneRefresh ==
  \A p \in Procs :
    (HoldsBoth(cfg[p]) /\ Stale(cfg[p], now[p])) =>
      /\ pc[p] \in {"refreshing", "done"}
      /\ refreshReqs[p] = 1
      /\ pc[p] = "done" => outcome[p] \in {"returned", "RefreshFailed"}

\* A call found expiresAt equal to now, refreshed once and returned.
C1_Witness ==
  \E p \in Procs :
    /\ pc[p] = "done"
    /\ outcome[p] = "returned"
    /\ HoldsBoth(cfg[p])
    /\ "expiresAt" \in DOMAIN cfg[p]
    /\ cfg[p].expiresAt = now[p]
    /\ refreshReqs[p] = 1

\* The record loaded by p's call has both tokens and expires after `now`.
StillValid(p) ==
  /\ HoldsBoth(cfg[p])
  /\ "expiresAt" \in DOMAIN cfg[p]
  /\ cfg[p].expiresAt > now[p]

\* C2: a call that loads a record with both tokens and expiresAt > now returns
\* the stored accessToken, sends no request and performs no save; this holds
\* for every call made while the token is valid.
C2_ValidTokenNoNetwork ==
  \A p \in Procs :
    StillValid(p) =>
      /\ pc[p] = "done"
      /\ outcome[p] = "returned"
      /\ retval[p] = cfg[p].accessToken
      /\ refreshReqs[p] = 0
      /\ response[p] = NoObject
      /\ ~saved[p]

\* Both callers have called while the token was valid: the same stored token
\* twice, no request.
C2_Witness ==
  /\ \A p \in Procs : StillValid(p) /\ pc[p] = "done" /\ refreshReqs[p] = 0
  /\ retval["p1"] = retval["p2"]
  /\ retval["p1"] = file.json.accessToken

\* C3: when the refresh request fails, the call fails with RefreshFailed, the
\* step leaves the persisted record as it is and the call has performed no
\* save.
C3_RefreshFailureKeepsRecord ==
  [][\A p \in Procs :
       (pc[p] = "refreshing" /\ pc'[p] = "done" /\ ~response'[p].ok) =>
         /\ outcome'[p] = "RefreshFailed"
         /\ file' = file
         /\ ~saved'[p]]_vars

\* A refresh has failed and the record still is the one the call loaded.
C3_Witness ==
  \E p \in Procs :
    /\ pc[p] = "done"
    /\ outcome[p] = "RefreshFailed"
    /\ refreshReqs[p] = 1
    /\ file.json = cfg[p]

\* C4: a call that loads a record without accessToken or without refreshToken
\* fails with Unauthenticated, sends no refresh request and changes neither
\* the persisted record nor the in-memory cache.
C4_UnauthenticatedNoEffect ==
  [][\A p \in Procs :
       (pc[p] = "idle" /\ pc'[p] # "idle" /\ Loadable(file) /\ ~HoldsBoth(file.json)) =>
         /\ pc'[p] = "done"
         /\ outcome'[p] = "Unauthenticated"
         /\ refreshReqs'[p] = 0
         /\ file' = file
         /\ cachedAccessToken' = cachedAccessToken]_vars

\* A call failed with Unauthenticated on a record that has lost its
\* refreshToken, with a token in the cache from an earlier call.
C4_Witness ==
  /\ pc["p1"] = "done"
  /\ outcome["p1"] = "Unauthenticated"
  /\ "accessToken" \in DOMAIN cfg["p1"]
  /\ "refreshToken" \notin DOMAIN cfg["p1"]
  /\ cachedAccessToken # Null

\* The expires_in that refreshAccessToken hands back for a response body.
EffectiveExpiresIn(d) ==
  IF "expires_in" \in DOMAIN d /\ d.expires_in # 0 THEN d.expires_in ELSE DefaultExpiresIn

\* C5 as stated: after a successful refresh the persisted record has the
\* access_token of the response and expiresAt = now + expires_in*1000 with
\* the expires_in of the response, it has been saved and the call returns the
\* new token.
C5_Original ==
  [][\A p \in Procs :
       (pc[p] = "refreshing" /\ pc'[p] = "done" /\ response'[p].ok) =>
         LET d == response'[p].data IN
         /\ outcome'[p] = "returned"
         /\ retval'[p] = d.access_token
         /\ saved'[p]
         /\ file'.json.accessToken = d.access_token
         /\ "expires_in" \in DOMAIN d
         /\ file'.json.expiresAt = now[p] + d.expires_in * 1000]_vars

\* C5 (amended): as C5_Original, with expires_in being the expires_in of the
\* response when it has one that is not 0, and 3600 otherwise; `now` is the
\* time read before the refresh request was sent.
C5_RefreshPersists ==
  [][\A p \in Procs :
       (pc[p] = "refreshing" /\ pc'[p] = "done" /\ response'[p].ok) =>
         LET d == response'[p].data IN
         /\ outcome'[p] = "returned"
         /\ retval'[p] = d.access_token
         /\ saved'[p]
         /\ file'.json.accessToken = d.access_token
         /\ file'.json.expiresAt = now[p] + EffectiveExpiresIn(d) * 1000]_vars

\* A refresh whose answer took time has been persisted with expiresAt counted
\* from the time of the validity check.
C5_Witness ==
  \E p \in Procs :
    /\ pc[p] = "done"
    /\ outcome[p] = "returned"
    /\ saved[p]
    /\ now[p] < clock
    /\ "expires_in" \in DOMAIN response[p].data
    /\ response[p].data.expires_in = 2
    /\ file.json.accessToken = retval[p]
    /\ file.json.expiresAt = now[p] + 2000

\* C6: every write of the record by a successful refresh or a successful code
\* exchange leaves expiresAt greater than the time of the write.
C6_ExpiresAtInFuture ==
  [][/\ \A p \in Procs :
          (pc[p] = "refreshing" /\ pc'[p] = "done" /\ saved'[p]) =>
            file'.json.expiresAt > clock'
     /\ (authSaves' # authSaves) => file'.json.expiresAt > clock']_vars

\* C7: when the authorization flow has completed successfully the persisted
\* record has accessToken, refreshToken and an expiresAt after the start of
\* the flow.
C7_FlowLeavesTokens ==
  authPc = "resolved" =>
    /\ "accessToken" \in DOMAIN file.json
    /\ "refreshToken" \in DOMAIN file.json
    /\ "expiresAt" \in DOMAIN file.json
    /\ file.json.expiresAt > authStart

\* The request is on the registered callback path.
OnCallbackPath(req) == req.hasUrl /\ req.path = "/callback"

\* The returned state is missing or is not the generated one.
StateDiffers(req) == "state" \notin DOMAIN req.params \/ req.params.state # authState

\* What handling a failing callback does: the flow is rejected with err, the
\* listener is closed, no exchange is started, nothing is persisted.
FailsWith(err) ==
  /\ authPc' = "rejected"
  /\ authErr' = err
  /\ server' = "closed"
  /\ exchangeReqs' = exchangeReqs
  /\ authSaves' = authSaves
  /\ file' = file

\* C8 as stated: every callback request whose state differs from the
\* generated one fails the pending flow with StateMismatch, closes the
\* listener, starts no exchange and persists nothing.
C8_Original ==
  [][\A r \in Reqs, req \in Requests :
       (authPc = "pending" /\ HandleRequest(r, req) /\ OnCallbackPath(req) /\ StateDiffers(req))
         => FailsWith("StateMismatch")]_vars

\* C8 (amended): the same for the callback requests that carry no error
\* parameter or an empty one.
C8_StateMismatch ==
  [][\A r \in Reqs, req \in Requests :
       (/\ authPc = "pending"
        /\ HandleRequest(r, req)
        /\ OnCallbackPath(req)
        /\ StateDiffers(req)
        /\ ("error" \notin DOMAIN req.params \/ req.params.error = ""))
         => FailsWith("StateMismatch")]_vars

\* The flow has failed with StateMismatch: listener closed, no exchange, the
\* record without tokens as before.
C8_Witness ==
  /\ authPc = "rejected"
  /\ authErr = "StateMismatch"
  /\ server = "closed"
  /\ exchangeReqs = 0
  /\ authSaves = 0
  /\ file.json = authConfig

\* C9 as stated: every callback request that carries an error parameter fails
\* the pending flow with AuthorizationDenied, closes the listener, starts no
\* exchange and persists nothing, whatever its state and code.
C9_Original ==
  [][\A r \in Reqs, req \in Requests :
       (/\ authPc = "pending"
        /\ HandleRequest(r, req)
        /\ OnCallbackPath(req)
        /\ "error" \in DOMAIN req.params)
         => FailsWith("AuthorizationDenied")]_vars

\* C9 (amended): the same for the callback requests whose error parameter is
\* not empty.
C9_AuthorizationDenied ==
  [][\A r \in Reqs, req \in Requests :
       (/\ authPc = "pending"
        /\ HandleRequest(r, req)
        /\ OnCallbackPath(req)
        /\ "error" \in DOMAIN req.params
        /\ req.params.error # "")
         => FailsWith("AuthorizationDenied")]_vars

\* The flow has failed with AuthorizationDenied: listener closed, no exchange,
\* nothing saved.
C9_Witness ==
  /\ authPc = "rejected"
  /\ authErr = "AuthorizationDenied"
  /\ server = "closed"
  /\ exchangeReqs = 0
  /\ authSaves = 0

\* C10: in every settled state of the flow the listener is not open.
C10_ListenerClosedWhenSettled ==
  authPc \in {"resolved", "rejected"} => server \notin {"binding", "listening"}

\* The errors a pending flow can be rejected with.
FlowErrors ==
  {"AuthorizationDenied", "StateMismatch", "MissingCode", "TokenExchangeFailed", "ServerError"}

\* C11: the flow settles once. A settled flow keeps its outcome whatever is
\* handled afterwards; a pending flow becomes successful only in the step in
\* which the exchange of a callback has succeeded, and failed only with the
\* error of the step that fails it.
C11_SettlesOnce ==
  [][/\ authPc \in {"resolved", "rejected"} => (authPc' = authPc /\ authErr' = authErr)
     /\ (authPc = "pending" /\ authPc' = "resolved") =>
          \E r \in Reqs : reqPc[r] = "exchanging" /\ reqPage'[r] = "success"
     /\ (authPc = "pending" /\ authPc' = "rejected") => authErr' \in FlowErrors
     /\ authPc = "pending" => authErr = "none"]_vars

\* The flow failed with MissingCode and a callback whose exchange finished
\* afterwards with success has not changed that.
C11_Witness ==
  /\ authPc = "rejected"
  /\ authErr = "MissingCode"
  /\ \E r \in Reqs : reqPage[r] = "success"

\* C12: when the exchange started by a callback fails, the listener is closed,
\* the failure page is presented, the persisted record is unchanged, and a
\* pending flow fails with TokenExchangeFailed.
C12_ExchangeFailure ==
  [][\A r \in Reqs :
       ExchangeResume(r, [ok |-> FALSE]) =>
         /\ server' \notin {"binding", "listening"}
         /\ reqPage'[r] = "failed"
         /\ file' = file
         /\ authSaves' = authSaves
         /\ authPc = "pending" => (authPc' = "rejected" /\ authErr' = "TokenExchangeFailed")]_vars

\* The flow has failed with TokenExchangeFailed after one exchange: listener
\* closed, nothing saved, no token in the record.
C12_Witness ==
  /\ authPc = "rejected"
  /\ authErr = "TokenExchangeFailed"
  /\ server = "closed"
  /\ exchangeReqs = 1
  /\ authSaves = 0
  /\ "accessToken" \notin DOMAIN file.json

\* C13: every callback request with no error parameter, the generated state
\* and no code parameter fails the pending flow with MissingCode, closes the
\* listener, starts no exchange and persists nothing.
C13_MissingCode ==
  [][\A r \in Reqs, req \in Requests :
       (/\ authPc = "pending"
        /\ HandleRequest(r, req)
        /\ OnCallbackPath(req)
        /\ "error" \notin DOMAIN req.params
        /\ ~StateDiffers(req)
        /\ "code" \notin DOMAIN req.params)
         => FailsWith("MissingCode")]_vars

\* The flow has failed with MissingCode: listener closed, no exchange,
\* nothing saved.
C13_Witness ==
  /\ authPc = "rejected"
  /\ authErr = "MissingCode"
  /\ server = "closed"
  /\ exchangeReqs = 0
  /\ authSaves = 0

\* C14: a request to a path other than the callback path gets the not-found
\* response and changes nothing of the flow: outcome, listener, generated
\* state, record in memory, persisted record, exchanges and saves.
C14_OtherPathNotFound ==
  [][\A r \in Reqs, req \in Requests :
       (HandleRequest(r, req) /\ req.hasUrl /\ req.path # "/callback") =>
         /\ reqPage'[r] = "404"
         /\ UNCHANGED <<authPc, authErr, server, authState, authConfig, file,
                        exchangeReqs, authSaves, browser>>]_vars

\* Every request got the not-found response; the flow is pending and the
\* listener open.
C14_Witness ==
  /\ \A r \in Reqs : reqPage[r] = "404"
  /\ authPc = "pending"
  /\ server = "listening"
  /\ authSaves = 0

\* The host of the redirect URI of the persisted record is not a loopback one.
NonLoopbackRecord ==
  Loadable(file) /\ file.json.redirectUri \notin
    {"http://127.0.0.1:8888/callback", "http://localhost/callback"}

\* C15: started on a record whose redirect URI host is neither localhost nor
\* 127.0.0.1, authorizeSpotify exits: no state is generated, no listener is
\* started, the browser is not opened, the persisted record is unchanged.
C15_NonLoopbackIsFatal ==
  [][(authPc = "idle" /\ authPc' # "idle" /\ NonLoopbackRecord) =>
       /\ authPc' = "exited"
       /\ authState' = Undefined
       /\ server' = "none"
       /\ browser' = FALSE
       /\ exchangeReqs' = 0
       /\ file' = file]_vars

\* The flow has exited on a record with host example.com.
C15_Witness ==
  /\ authPc = "exited"
  /\ file.json.redirectUri = "https://example.com/callback"
  /\ authState = Undefined
  /\ server = "none"
  /\ ~browser

\* The status is 2xx.
Is2xx(st) == st \in 200..299

\* The bodies that decode as JSON, with the value each decodes to.
Decodable == {"[1]"}

Decoded(t) == CASE t = "[1]" -> <<1>>

\* C16: spotifyFetch maps the response it received to one outcome: non-2xx to
\* ApiError with the status and the raw text, 2xx with an empty body to an
\* absent result, 2xx with an undecodable body to an absent result, 2xx with
\* a decodable body to the decoded value.
C16_ResponseMapping ==
  \A p \in Procs :
    (pc[p] = "finished" /\ apiResp[p] # NoObject /\ ~apiResp[p].failed) =>
      LET r == apiResp[p]
          f == fetchResult[p]
      IN  /\ ~Is2xx(r.status) =>
               f.kind = "ApiError" /\ f.status = r.status /\ f.text = r.text
          /\ (Is2xx(r.status) /\ r.text = "") => f.kind = "absent"
          /\ (Is2xx(r.status) /\ r.text # "" /\ r.text \notin Decodable) => f.kind = "absent"
          /\ (Is2xx(r.status) /\ r.text \in Decodable) =>
               f.kind = "value" /\ f.value = Decoded(r.text)

\* A 200 answer whose body is not JSON has given an absent result.
C16_Witness ==
  /\ pc["p1"] = "finished"
  /\ apiResp["p1"] = [failed |-> FALSE, status |-> 200, text |-> "OK"]
  /\ fetchResult["p1"].kind = "absent"

\* C17: a call to spotifyFetch sends at most one refresh request and at most
\* one API request; an Unauthenticated or RefreshFailed error of
\* getAccessToken is what spotifyFetch fails with, and no API request is sent;
\* a call that failed with ApiError has sent one API request and is over.
C17_NoRetry ==
  \A p \in Procs :
    /\ refreshReqs[p] <= 1
    /\ apiReqs[p] <= 1
    /\ (pc[p] = "finished" /\ outcome[p] \in {"Unauthenticated", "RefreshFailed"}) =>
         fetchResult[p].kind = outcome[p] /\ apiReqs[p] = 0
    /\ fetchResult[p].kind = "ApiError" => pc[p] = "finished" /\ apiReqs[p] = 1

\* spotifyFetch has failed with the RefreshFailed of getAccessToken after one
\* refresh request and no API request.
C17_Witness ==
  /\ pc["p1"] = "finished"
  /\ fetchResult["p1"].kind = "RefreshFailed"
  /\ refreshReqs["p1"] = 1
  /\ apiReqs["p1"] = 0

\* C18: while another call is refreshing, a call that loads a stale record
\* sends its own refresh request; a call whose refresh succeeds after another
\* call has saved still saves its own result and returns its own token, the
\* other call has returned the token it obtained itself, and the persisted
\* accessToken and expiresAt are the pair of the call that saved last.
C18_ConcurrentRefresh ==
  [][\A p \in Procs : \A q \in Procs \ {p} :
       /\ (/\ pc[p] = "idle" /\ pc'[p] # "idle"
           /\ pc[q] = "refreshing"
           /\ Loadable(file) /\ HoldsBoth(file.json) /\ Stale(file.json, clock))
            => (pc'[p] = "refreshing" /\ refreshReqs'[p] = 1 /\ refreshReqs'[q] = 1)
       /\ (/\ pc[p] = "refreshing" /\ pc'[p] = "done" /\ response'[p].ok
           /\ pc[q] = "done" /\ saved[q])
            => /\ refreshReqs[p] = 1 /\ refreshReqs[q] = 1
               /\ saved'[p]
               /\ retval'[p] = response'[p].data.access_token
               /\ retval'[q] = response[q].data.access_token
               /\ file'.json.accessToken = response'[p].data.access_token
               /\ file'.json.expiresAt =
                    now[p] + EffectiveExpiresIn(response'[p].data) * 1000]_vars

\* Two calls loaded the same stale record, both refreshed and saved, each
\* returned its own token, and the record holds the pair of p2.
C18_Witness ==
  /\ pc["p1"] = "done" /\ pc["p2"] = "done"
  /\ saved["p1"] /\ saved["p2"]
  /\ cfg["p1"] = cfg["p2"]
  /\ retval["p1"] # retval["p2"]
  /\ retval["p1"] = response["p1"].data.access_token
  /\ file.json.accessToken = retval["p2"]
  /\ file.json.expiresAt = now["p2"] + EffectiveExpiresIn(response["p2"].data) * 1000
  /\ now["p1"] > now["p2"]

\* C19: a load that runs while another process is saving returns the
\* complete record from before the save or the complete record from after it.
C19_SaveAtomic ==
  [][\A p \in Procs :
       (pc[p] = "idle" /\ pc'[p] # "idle" /\ pendingWrite.active) =>
         /\ outcome'[p] \notin {"ConfigMissing", "ConfigInvalid"}
         /\ cfg'[p] \in {pendingWrite.old.json, pendingWrite.new.json}]_vars

\* The fields load() requires.
RequiredFields == {"clientId", "clientSecret", "redirectUri"}

\* p's call to getAccessToken ends with the load error err: no record is
\* returned, no refresh request is sent, nothing is written.
CallFailsAtLoad(p, err) ==
  /\ pc'[p] = "done"
  /\ outcome'[p] = err
  /\ cfg'[p] = NoObject
  /\ refreshReqs'[p] = 0
  /\ file' = file

\* authorizeSpotify ends with the load error err: no listener, no browser, no
\* exchange.
FlowFailsAtLoad(err) ==
  /\ authPc' = "threw"
  /\ authErr' = err
  /\ server' = "none"
  /\ browser' = FALSE
  /\ exchangeReqs' = 0
  /\ file' = file

\* C20: load fails with ConfigMissing when the file does not exist and with
\* ConfigInvalid when it does not parse or lacks a required field, and a
\* record it returns has the three required fields; getAccessToken and the
\* authorization flow end with that error with no request sent, and
\* spotifyFetch ends with the load error of getAccessToken with no API request.
C20_LoadErrors ==
  [][/\ \A p \in Procs :
          (pc[p] = "idle" /\ pc'[p] # "idle") =>
            IF ~file.exists THEN CallFailsAtLoad(p, "ConfigMissing")
            ELSE IF ~Loadable(file) THEN CallFailsAtLoad(p, "ConfigInvalid")
            ELSE RequiredFields \subseteq DOMAIN cfg'[p]
     /\ \A p \in Procs :
          (/\ pc[p] = "done" /\ pc'[p] \in {"fetching", "finished"}
           /\ outcome[p] \in {"ConfigMissing", "ConfigInvalid"})
            => (pc'[p] = "finished" /\ fetchResult'[p].kind = outcome[p] /\ apiReqs'[p] = 0)
     /\ (authPc = "idle" /\ authPc' # "idle") =>
          IF ~file.exists THEN FlowFailsAtLoad("ConfigMissing")
          ELSE IF ~Loadable(file) THEN FlowFailsAtLoad("ConfigInvalid")
          ELSE authPc' = "exited" \/ RequiredFields \subseteq DOMAIN authConfig']_vars

\* On a file that does not exist, spotifyFetch and the authorization flow
\* have both failed with ConfigMissing and nothing was sent or started.
C20_Witness ==
  /\ ~file.exists
  /\ pc["p1"] = "finished"
  /\ fetchResult["p1"].kind = "ConfigMissing"
  /\ refreshReqs["p1"] = 0
  /\ apiReqs["p1"] = 0
  /\ authPc = "threw"
  /\ authErr = "ConfigMissing"
  /\ server = "none"
  /\ ~browser

\* C21: the persisted record has accessToken and refreshToken both present
\* or both absent, after any flows and getAccessToken calls.
C21_TokensSetTogether ==
  (file.exists /\ file.wellFormed) =>
    ("accessToken" \in DOMAIN file.json <=> "refreshToken" \in DOMAIN file.json)

\* The handling of a callback-path request ends in this step.
CallbackHandled(r) ==
  reqPc[r] # "done" /\ reqPc'[r] = "done" /\ reqPage'[r] \in {"failed", "success"}

\* C22: the flow has no timeout. It leaves the pending state only in a step
\* that ends the handling of a callback-path request or in which the listener
\* raises an error, and then it is settled; such a step leaves no flow
\* pending; while the flow is pending the listener is open.
C22_NoTimeout ==
  [][/\ (authPc = "pending" /\ authPc' # "pending") =>
          /\ authPc' \in {"resolved", "rejected"}
          /\ (\E r \in Reqs : CallbackHandled(r)) \/ authErr' = "ServerError"
     /\ (authPc = "pending" /\ ((\E r \in Reqs : CallbackHandled(r)) \/ ServerError)) =>
          authPc' \in {"resolved", "rejected"}
     /\ authPc' = "pending" => server' \in {"binding", "listening"}]_vars

\* The flow is still pending with the listener open at the last instant of
\* the clock, having answered a request to another path.
C22_Witness ==
  /\ authPc = "pending"
  /\ server = "listening"
  /\ authStart = StartClock
  /\ clock >= MaxClock
  /\ \E r \in Reqs : reqPage[r] = "404"

\* p's call to getAccessToken returns a token in this step.
Returns(p) == pc[p] # "done" /\ pc'[p] = "done" /\ outcome'[p] = "returned"

\* C23: the cached token changes only in a step in which a call to
\* getAccessToken returns, and is then the token returned; so it is absent
\* until the first successful call and afterwards the token of the most recent
\* successful call, after a refresh the refreshed one.
C23_CacheFollowsLastSuccess ==
  [][/\ \A p \in Procs : Returns(p) =>
          (cachedAccessToken' = retval'[p] /\ cachedAccessToken' # Null)
     /\ (\A p \in Procs : ~Returns(p)) => cachedAccessToken' = cachedAccessToken]_vars

\* Two calls have returned different tokens, p2 after a refresh, and the
\* cache holds the token of p2.
C23_Witness ==
  /\ outcome["p1"] = "returned" /\ outcome["p2"] = "returned"
  /\ retval["p1"] # retval["p2"]
  /\ saved["p2"]
  /\ cachedAccessToken = retval["p2"]

\* C24: the token a call to getAccessToken returns is the accessToken of the
\* persisted record in the state in which the call ends.
C24_ReturnedTokenIsPersisted ==
  [][\A p \in Procs : Returns(p) =>
       /\ Loadable(file')
       /\ "accessToken" \in DOMAIN file'.json
       /\ retval'[p] = file'.json.accessToken]_vars

\* A call made after an authorization flow has succeeded has returned the
\* token that flow persisted, without a refresh.
C24_Witness ==
  /\ pc["p1"] = "done"
  /\ outcome["p1"] = "returned"
  /\ authPc = "resolved"
  /\ authSaves = 1
  /\ ~saved["p1"]
  /\ retval["p1"] = authConfig.accessToken
  /\ retval["p1"] # "t0"
  /\ now["p1"] > authStart

\* The fields of the record getAccessToken is not meant to change.
KeptFields == {"refreshToken", "clientId", "clientSecret", "redirectUri"}

\* C25: each write of the persisted record by getAccessToken leaves
\* refreshToken, clientId, clientSecret and redirectUri as the record held
\* them immediately before the write.
C25_RefreshKeepsOtherFields ==
  [][\A p \in Procs :
       (pc[p] = "refreshing" /\ ~saved[p] /\ saved'[p]) =>
         \A k \in KeptFields : Get(file'.json, k) = Get(file.json, k)]_vars

\* C26: in one authorization flow at most one exchange is made and at most
\* one save, and a flow that has failed has saved no token.
C26_FailedFlowWritesNothing ==
  /\ exchangeReqs <= 1
  /\ authSaves <= 1
  /\ authPc = "rejected" => authSaves = 0

\* The current call has read a device volume; that volume.
HasCurrent ==
  /\ playback.kind = "value"
  /\ "device" \in DOMAIN playback.value
  /\ "volume_percent" \in DOMAIN playback.value.device
  /\ ~playback.value.device.volume_percent.null

Current == playback.value.device.volume_percent.n

\* current + adjustment limited to 0..100, in steps of 1/Scale.
Limited ==
  LET sum == Current * Scale + adjustment
  IN  IF sum < 0 THEN 0 ELSE IF sum > 100 * Scale THEN 100 * Scale ELSE sum

\* C27 as stated: the volume requested is min(100, max(0, current +
\* adjustment)) and lies in 0..100; without a device or a volume no volume
\* request is sent.
C27_Original ==
  /\ (volPc \in {"putting", "done"} /\ HasCurrent) =>
       /\ Len(volumeReqs) = 1
       /\ volumeReqs[1] * Scale = Limited
       /\ volumeReqs[1] \in 0..100
  /\ (volPc = "done" /\ ~HasCurrent) => volumeReqs = <<>>

\* C27 (amended): the volume requested is the integer nearest to min(100,
\* max(0, current + adjustment)), a half rounded upwards, and lies in 0..100;
\* without a device or a volume no volume request is sent.
C27_RequestedVolume ==
  /\ (volPc \in {"putting", "done"} /\ HasCurrent) =>
       /\ Len(volumeReqs) = 1
       /\ 2 * Limited - Scale < 2 * Scale * volumeReqs[1]
       /\ 2 * Scale * volumeReqs[1] <= 2 * Limited + Scale
       /\ adjustment % Scale = 0 => volumeReqs[1] * Scale = Limited
       /\ volumeReqs[1] \in 0..100
  /\ (volPc = "done" /\ ~HasCurrent) => volumeReqs = <<>>

\* A call with current volume 90 and adjustment +20 has requested volume 100.
C27_Witness ==
  /\ volPc = "done"
  /\ HasCurrent
  /\ Current = 90
  /\ adjustment = 20 * Scale
  /\ volumeReqs = <<100>>

====
